---- MODULE Spec2Model ----
(***************************************************************************)
(* Job orchestration core of the video downloader web application:         *)
(* web_app.py (job registry, progress hooks, _run_download_job, the two    *)
(* HTTP handlers), downloader.py (download_urls), transcription.py         *)
(* (transcribe_audio and the cached Whisper model) and transcriber.py      *)
(* (the command line tool, a process of its own).                          *)
(*                                                                         *)
(* Every block of code run under "with JOBS_LOCK" is one atomic action,    *)
(* except the progress hook when it runs ffmpeg while it holds the lock;   *)
(* _load_model holds _MODEL_LOCK from one action to the next.              *)
(* External collaborators (yt-dlp, ffmpeg, whisper, the file system) are   *)
(* nondeterministic choices over the outcomes the calling code sees.       *)
(* Floating point progress values are held in hundredths (Unit = 1.0).     *)
(***************************************************************************)
EXTENDS Integers, Sequences, FiniteSets, TLC

VARIABLES
    JOBS,          \* web_app.JOBS: job id -> job record
    WHISPER_MODEL, \* transcription._WHISPER_MODEL: None or the loaded model
    pc,            \* per job id: position of its _run_download_job thread
    urls,          \* per job id: the urls argument of its thread
    args,          \* per job id: audio_only / transcript_format / transcript_language arguments
    idx,           \* per job id: index of the url / target / file being processed
    nev,           \* history: per job id, progress events emitted so far
    failed,        \* per job id: download_urls's local list `failed`
    completed_files, \* per job id: the runner's local list completed_files (shares its dicts with the record)
    targets,       \* per job id: reencode_targets, as indexes into completed_files
    disk,          \* per job id: what the file system holds at the path of each reencode target
    transcripts,   \* per job id: the runner's local list `transcripts`
    fetched,       \* history: per job id, the outcome of each concluded fetch
    attempts,      \* history: per job id, the outcome of each transcribe attempt
    inbox,         \* the bodies of the POST /api/download requests still to arrive
    JOBS_LOCK,     \* web_app.JOBS_LOCK: None or the job id whose thread holds it
    snapshot,      \* job_progress's local `snapshot` between its lock and its response (<<>>: no query)
    loads,         \* history: the results of the calls of whisper.load_model
    _MODEL_LOCK,   \* transcription._MODEL_LOCK: None or the job id whose thread holds it
    cli,           \* the locals of transcriber.main in the process of the command line tool
    resp           \* the HTTP response this step returned (NoResponse: the step was no request)

vars == <<JOBS, WHISPER_MODEL, pc, urls, args, idx, nev, failed, completed_files,
          targets, disk, transcripts, fetched, attempts, inbox, JOBS_LOCK, snapshot, loads,
          _MODEL_LOCK, cli, resp>>

runnerVars == <<pc, urls, args, idx, nev, failed, completed_files, targets, disk,
                transcripts, fetched, attempts>>

----------------------------------------------------------------------------
(* Bounds of the model. *)

MaxUrls == 2      \* urls of one job
MaxBlobLen == 3   \* characters of a submitted "urls" text
MaxEvents == 2    \* progress events yt-dlp emits during one run of the program
MaxFiles == 3    \* audio files handed to the command line tool

(* Values. *)

None == "None"
Unit == 100       \* current_progress 1.0

JobIds == {"j1", "j2"}   \* identifiers uuid4 can hand out
BogusId == "j0"          \* an identifier no submission returns
NoResponse == [op |-> "none"]
Chars == {"a", " ", ",", "\n"}
Whitespace == {" ", "\n"}

Terminal == {"completed", "completed_with_warnings", "error"}

----------------------------------------------------------------------------
(* web_app._split_urls: url_blob.replace(",", "\n").splitlines(), each item  *)
(* stripped, empty items dropped.  Text is a sequence of characters.         *)

ReplaceCommas(s) == [i \in 1..Len(s) |-> IF s[i] = "," THEN "\n" ELSE s[i]]

RECURSIVE SplitLinesFrom(_, _, _)
SplitLinesFrom(s, i, cur) ==
    IF i > Len(s)
    THEN IF cur = <<>> THEN <<>> ELSE <<cur>>
    ELSE IF s[i] = "\n"
         THEN <<cur>> \o SplitLinesFrom(s, i + 1, <<>>)
         ELSE SplitLinesFrom(s, i + 1, Append(cur, s[i]))

SplitLines(s) == SplitLinesFrom(s, 1, <<>>)

RECURSIVE LStrip(_)
LStrip(s) ==
    IF s # <<>> /\ Head(s) \in Whitespace THEN LStrip(Tail(s)) ELSE s

RECURSIVE RStrip(_)
RStrip(s) ==
    IF s # <<>> /\ s[Len(s)] \in Whitespace THEN RStrip(SubSeq(s, 1, Len(s) - 1)) ELSE s

Strip(s) == RStrip(LStrip(s))

(* Mutant: the filter tests the item before it is stripped. *)
_split_urls_unstripped_test(url_blob) ==
    [i \in 1..Len(SelectSeq(SplitLines(ReplaceCommas(url_blob)), LAMBDA item : item # <<>>)) |->
        Strip(SelectSeq(SplitLines(ReplaceCommas(url_blob)), LAMBDA item : item # <<>>)[i])]

_split_urls(url_blob) ==
    SelectSeq([i \in 1..Len(SplitLines(ReplaceCommas(url_blob))) |->
                   Strip(SplitLines(ReplaceCommas(url_blob))[i])],
              LAMBDA item : item # <<>>)

----------------------------------------------------------------------------
(* web_app._create_job: the record stored under a fresh identifier.  The   *)
(* key transcript_errors is absent until the first per-file error; every   *)
(* reader treats an absent key as the empty list, which is how it is held. *)

(* Mutant: the record is filed with total 0. *)
_create_job_total_unset(total, audio_only, transcript_format, transcript_language) ==
    [ status |-> "pending",
      total |-> 0,
      completed |-> 0,
      current_progress |-> 0,
      current_title |-> "",
      current_url |-> <<>>,
      failed |-> <<>>,
      completed_files |-> <<>>,
      transcripts |-> <<>>,
      transcript_errors |-> <<>>,
      audio_only |-> audio_only,
      transcript_total |-> 0,
      transcript_completed |-> 0,
      transcript_started_at |-> None,
      error |-> None,
      output_dir |-> "downloads",
      transcript_format |-> transcript_format,
      transcript_language |-> transcript_language,
      reencode_h264 |-> FALSE,
      reencode_total |-> 0,
      reencode_completed |-> 0 ]

_create_job(total, audio_only, transcript_format, transcript_language) ==
    [ status |-> "pending",
      total |-> total,
      completed |-> 0,
      current_progress |-> 0,
      current_title |-> "",
      current_url |-> <<>>,
      failed |-> <<>>,
      completed_files |-> <<>>,
      transcripts |-> <<>>,
      transcript_errors |-> <<>>,
      audio_only |-> audio_only,
      transcript_total |-> 0,
      transcript_completed |-> 0,
      transcript_started_at |-> None,
      error |-> None,
      output_dir |-> "downloads",
      transcript_format |-> transcript_format,
      transcript_language |-> transcript_language,
      reencode_h264 |-> FALSE,
      reencode_total |-> 0,
      reencode_completed |-> 0 ]

----------------------------------------------------------------------------
(* Initial state: an empty registry, no model loaded, no thread, and the   *)
(* requests the clients are going to send.                                 *)

(* The command line tool has not been started. *)
NotRun == [pc |-> "idle"]

Start(requests) ==
    /\ JOBS = << >>
    /\ WHISPER_MODEL = None
    /\ pc = [j \in JobIds |-> "idle"]
    /\ urls = [j \in JobIds |-> <<>>]
    /\ args = [j \in JobIds |-> None]
    /\ idx = [j \in JobIds |-> 0]
    /\ nev = [j \in JobIds |-> 0]
    /\ failed = [j \in JobIds |-> <<>>]
    /\ completed_files = [j \in JobIds |-> <<>>]
    /\ targets = [j \in JobIds |-> <<>>]
    /\ disk = [j \in JobIds |-> <<>>]
    /\ transcripts = [j \in JobIds |-> <<>>]
    /\ fetched = [j \in JobIds |-> <<>>]
    /\ attempts = [j \in JobIds |-> <<>>]
    /\ inbox \in requests
    /\ JOBS_LOCK = None
    /\ snapshot = <<>>
    /\ loads = <<>>
    /\ _MODEL_LOCK = None
    /\ cli = NotRun
    /\ resp = NoResponse

----------------------------------------------------------------------------
(* Requests.                                                               *)

RECURSIVE SeqsUpTo(_, _)
SeqsUpTo(S, n) ==
    IF n = 0 THEN {<<>>}
    ELSE SeqsUpTo(S, n - 1) \cup
         {Append(s, c) : s \in {t \in SeqsUpTo(S, n - 1) : Len(t) = n - 1}, c \in S}

Blobs == SeqsUpTo(Chars, MaxBlobLen)
FormatInputs == {None, "SRT", "vtt"}
LanguageInputs == {None, "fr"}

Payloads ==
    [ urls : Blobs, audio_only : BOOLEAN,
      transcript_format : FormatInputs, transcript_language : LanguageInputs ]


(* The texts "a", "a,b", "a,b,a", ... of one to MaxUrls urls.             *)
SampleBlob(n) ==
    [i \in 1..(2 * n - 1) |->
        IF i % 2 = 0 THEN "," ELSE IF i % 4 = 1 THEN "a" ELSE "b"]

SamplePayloads ==
    [ urls : {SampleBlob(n) : n \in 1..MaxUrls}, audio_only : BOOLEAN,
      transcript_format : {None}, transcript_language : {None} ]

SamplePayloads1 ==
    [ urls |-> SampleBlob(1), audio_only |-> FALSE,
      transcript_format |-> None, transcript_language |-> None ]

Lower(s) == IF s = "SRT" THEN "srt" ELSE s

(* Mutant: the identifier does not change from one call to the next. *)
uuid4_repeated == "j1"

(* web_app._create_job line 676: uuid4().hex, an identifier not yet in use *)
(* (identifiers are interchangeable: the first unused one stands for it).  *)
uuid4 == CHOOSE id \in JobIds : id \notin DOMAIN JOBS

(* Mutant: a format the transcriber cannot write is let through. *)
TranscriptFormats_with_vtt == {"txt", "srt", "vtt"}

(* web_app.api_download lines 1059 and 1062: the recognized option values.  *)
TranscriptFormats == {"txt", "srt"}
TranscriptLanguages == {"auto", "ko", "en"}

(* web_app.api_download, POST /api/download: the next request is handled.  *)
(* _create_job (line 699) takes JOBS_LOCK; the rejections do not.          *)
api_download ==
    LET payload    == Head(inbox)
        urls_      == _split_urls(payload.urls)
        audio_only == payload.audio_only
        fmt        == Lower(IF payload.transcript_format = None
                            THEN "srt" ELSE payload.transcript_format)
        raw_language == Lower(IF payload.transcript_language = None
                              THEN "auto" ELSE payload.transcript_language)
        transcript_format == IF audio_only THEN fmt ELSE None
        transcript_language ==
            IF audio_only /\ raw_language # "auto" THEN raw_language ELSE None
        reject(msg) ==
            /\ resp' = [op |-> "download", code |-> 400, error |-> msg]
            /\ UNCHANGED <<JOBS, WHISPER_MODEL, runnerVars>>
        accept ==
            /\ JOBS_LOCK = None
            /\ LET job_id == uuid4 IN
                /\ JOBS' = JOBS @@ (job_id :> _create_job(Len(urls_), audio_only,
                                                          transcript_format,
                                                          transcript_language))
                /\ pc' = [pc EXCEPT ![job_id] = "start"]
                /\ urls' = [urls EXCEPT ![job_id] = urls_]
                /\ args' = [args EXCEPT ![job_id] =
                               [ audio_only |-> audio_only,
                                 transcript_format |-> transcript_format,
                                 transcript_language |-> transcript_language ]]
                /\ resp' = [op |-> "download", code |-> 200, job_id |-> job_id,
                            total |-> Len(urls_)]
            /\ UNCHANGED <<WHISPER_MODEL, idx, nev, failed, completed_files, targets, disk,
                           transcripts, fetched, attempts>>
    IN
    /\ inbox # <<>>
    /\ inbox' = Tail(inbox)
    /\ UNCHANGED <<JOBS_LOCK, snapshot, loads, _MODEL_LOCK, cli>>
    /\ IF urls_ = <<>>
       THEN reject("At least one URL is required.")
       ELSE IF audio_only /\ fmt \notin TranscriptFormats
       THEN reject("Unsupported script format.")
       ELSE IF audio_only /\ raw_language \notin TranscriptLanguages
       THEN reject("Unsupported language option.")
       ELSE accept

(* The overall fraction computed by job_progress, in hundredths.           *)
Min(a, b) == IF a < b THEN a ELSE b
Max(a, b) == IF a > b THEN a ELSE b

(* Mutant: the fraction without the cut of line 1113. *)
progress_value_unclamped(snapshot_) ==
    IF snapshot_.total <= 0 THEN 0
    ELSE (snapshot_.completed * Unit + snapshot_.current_progress) \div snapshot_.total

progress_value(snapshot_) ==
    IF snapshot_.total <= 0 THEN 0
    ELSE Max(0, Min(Unit, (snapshot_.completed * Unit + snapshot_.current_progress)
                              \div snapshot_.total))

(* Mutant: the lookup is JOBS.setdefault(job_id, {}), which files a record. *)
job_progress_setdefault(job_id) ==
    /\ IF job_id \notin DOMAIN JOBS
       THEN /\ JOBS' = JOBS @@ (job_id :> _create_job(0, FALSE, None, None))
            /\ resp' = [op |-> "progress", code |-> 200, job_id |-> job_id,
                        status |-> "pending", progress |-> 0]
       ELSE /\ JOBS' = JOBS
            /\ resp' = [op |-> "progress", code |-> 200, job_id |-> job_id,
                        status |-> JOBS[job_id].status,
                        progress |-> progress_value(JOBS[job_id])]
    /\ UNCHANGED <<WHISPER_MODEL, runnerVars, inbox, JOBS_LOCK, snapshot, loads, _MODEL_LOCK, cli>>

(* web_app.job_progress lines 1103-1107, GET /api/progress/<job_id>, the    *)
(* block under JOBS_LOCK: not found, or snapshot = job.copy().  The copy is *)
(* kept with the value every field had at that instant.                    *)
job_progress(job_id) ==
    /\ JOBS_LOCK = None
    /\ snapshot = <<>>
    /\ IF job_id \notin DOMAIN JOBS
       THEN /\ resp' = [op |-> "progress", code |-> 404, job_id |-> job_id,
                        error |-> "Unknown job id"]
            /\ snapshot' = snapshot
       ELSE /\ resp' = NoResponse
            /\ snapshot' = <<[job_id |-> job_id, job |-> JOBS[job_id]]>>
    /\ UNCHANGED <<JOBS, WHISPER_MODEL, runnerVars, inbox, JOBS_LOCK, loads, _MODEL_LOCK, cli>>

(* dict.copy() is shallow: what the fields of a copy taken as `copied` read *)
(* as once the record has become `live`.  The scalars are those copied.    *)
(* completed_files and a transcript_errors list that existed are the list  *)
(* objects of the record, which the hooks and the runner append to in      *)
(* place; failed and transcripts are rebound by the runner (lines 912 and  *)
(* 1017), so the copy keeps the lists it had.                              *)
dict_copy(copied, live) ==
    [copied EXCEPT !.completed_files = live.completed_files,
                   !.transcript_errors = IF copied.transcript_errors = <<>>
                                         THEN <<>> ELSE live.transcript_errors]

(* web_app.job_progress lines 1114-1125: name and thumbnail of each entry. *)
normalized_completed(raw_completed) ==
    [k \in 1..Len(raw_completed) |->
        [name |-> raw_completed[k].name, thumbnail |-> raw_completed[k].thumbnail]]

(* web_app.job_progress lines 1108-1171: the response is built from the    *)
(* snapshot after the lock has been released.                              *)
job_progress_response ==
    /\ snapshot # <<>>
    /\ LET seen == dict_copy(snapshot[1].job, JOBS[snapshot[1].job_id]) IN
        resp' = [op |-> "progress", code |-> 200, job_id |-> snapshot[1].job_id,
                 status |-> seen.status,
                 progress |-> progress_value(seen),
                 failed |-> seen.failed,
                 completed_files |-> normalized_completed(seen.completed_files),
                 transcripts |-> seen.transcripts,
                 transcript_errors |-> seen.transcript_errors]
    /\ snapshot' = <<>>
    /\ UNCHANGED <<JOBS, WHISPER_MODEL, runnerVars, inbox, JOBS_LOCK, loads, _MODEL_LOCK, cli>>

----------------------------------------------------------------------------
(* The progress events yt-dlp hands to the hook while it fetches one url.  *)
(* info is what _extract_fileinfo finds in info_dict: "file" (a file name  *)
(* key is present), "title" (only a title) or "bare" (neither).            *)

ByteCounts == {[downloaded_bytes |-> 1, total_bytes |-> 0],
               [downloaded_bytes |-> 1, total_bytes |-> 2],
               [downloaded_bytes |-> 3, total_bytes |-> 2]}
InfoKinds == {"file", "title", "bare"}

Events ==
    {[status |-> "downloading", info |-> "title", bytes |-> b] : b \in ByteCounts}
    \cup {[status |-> "finished", info |-> k, bytes |-> [downloaded_bytes |-> 0, total_bytes |-> 0]]
              : k \in InfoKinds}

(* web_app._extract_fileinfo: (filename, file_path) of the item i of a job. *)
_extract_fileinfo(info, i) ==
    CASE info = "file"  -> [filename |-> <<"name", i>>, file_path |-> "orig"]
      [] info = "title" -> [filename |-> <<"name", i>>, file_path |-> None]
      [] OTHER          -> [filename |-> None, file_path |-> None]

(* web_app._progress_hook body, run under JOBS_LOCK: the record after one event. *)
_progress_hook(job, data, i, url) ==
    LET title == IF data.info = "bare" THEN "" ELSE "title"
        total_bytes == data.bytes.total_bytes
        downloaded_bytes == data.bytes.downloaded_bytes
        progress == IF total_bytes # 0
                    THEN (downloaded_bytes * Unit) \div total_bytes ELSE 0
        found == _extract_fileinfo(data.info, i)
        thumbnail == IF found.file_path # None THEN "data:image/jpeg" ELSE "thumbnail"
        base == [job EXCEPT !.current_title = title, !.current_url = url]
    IN
    IF data.status = "downloading"
    THEN [base EXCEPT !.current_progress = progress,
                      !.status = IF job.status = "pending" THEN "running" ELSE job.status]
    ELSE IF data.status = "finished"
    THEN IF found.filename # None
         THEN [base EXCEPT !.current_progress = Unit,
                           !.completed_files = Append(@,
                               [name |-> found.filename, thumbnail |-> thumbnail,
                                path |-> found.file_path])]
         ELSE [base EXCEPT !.current_progress = Unit]
    ELSE base

(* Mutant: current_progress is reset and the item is not counted. *)
_item_complete_uncounted(job) ==
    [job EXCEPT !.current_progress = 0]

(* Mutant: the item is counted and current_progress is left as it was. *)
_item_complete_no_reset(job) ==
    [job EXCEPT !.completed = Min(job.total, job.completed + 1)]

(* web_app._item_complete body, run under JOBS_LOCK. *)
_item_complete(job) ==
    [job EXCEPT !.completed = Min(job.total, job.completed + 1),
                !.current_progress = 0]

----------------------------------------------------------------------------
(* The thread of one job: _run_download_job and, inside it, download_urls. *)

(* download_urls line 160: import_yt_dlp.  A missing package raises          *)
(* SystemExit, which "except Exception" does not catch: the thread ends.   *)
StartDownload(j) ==
    /\ pc[j] = "start"
    /\ \E installed \in BOOLEAN :
        pc' = [pc EXCEPT ![j] = IF installed THEN "fetch" ELSE "dead"]
    /\ idx' = [idx EXCEPT ![j] = 1]
    /\ nev' = [nev EXCEPT ![j] = 0]
    /\ failed' = [failed EXCEPT ![j] = <<>>]
    /\ resp' = NoResponse
    /\ UNCHANGED <<JOBS, WHISPER_MODEL, urls, args, completed_files, targets, disk,
                   transcripts, fetched, attempts, inbox, JOBS_LOCK, snapshot, loads, _MODEL_LOCK, cli>>

(* web_app._progress_hook lines 871-872: the hook runs ffmpeg through       *)
(* _generate_thumbnail_data for a finished event that carries a file path  *)
(* and no thumbnail.                                                       *)
GeneratesThumbnail(data) ==
    data.status = "finished" /\ _extract_fileinfo(data.info, 1).file_path # None

(* The progress events emitted so far, over all jobs. *)
RECURSIVE SumOver(_, _)
SumOver(f, S) ==
    IF S = {} THEN 0
    ELSE LET x == CHOOSE y \in S : TRUE IN f[x] + SumOver(f, S \ {x})

EventsEmitted == SumOver(nev, JobIds)

(* yt-dlp calls the progress hook while it fetches url idx, with an event  *)
(* the hook handles without an external call: the whole hook is one block  *)
(* under JOBS_LOCK.                                                        *)
ProgressEvent(j) ==
    /\ pc[j] = "fetch"
    /\ idx[j] <= Len(urls[j])
    /\ EventsEmitted < MaxEvents
    /\ JOBS_LOCK = None
    /\ \E data \in {d \in Events : ~GeneratesThumbnail(d)} :
        JOBS' = [JOBS EXCEPT ![j] = _progress_hook(@, data, idx[j], urls[j][idx[j]])]
    /\ nev' = [nev EXCEPT ![j] = @ + 1]
    /\ resp' = NoResponse
    /\ UNCHANGED <<WHISPER_MODEL, pc, urls, args, idx, failed, completed_files,
                   targets, disk, transcripts, fetched, attempts, inbox, JOBS_LOCK, snapshot, loads, _MODEL_LOCK, cli>>

(* web_app._progress_hook lines 852-872 for an event that needs a          *)
(* thumbnail: the hook takes JOBS_LOCK, writes title, url and progress and *)
(* starts ffmpeg, which runs while the lock is held.                       *)
ThumbnailStarted(j) ==
    /\ pc[j] = "fetch"
    /\ idx[j] <= Len(urls[j])
    /\ EventsEmitted < MaxEvents
    /\ JOBS_LOCK = None
    /\ \E data \in {d \in Events : GeneratesThumbnail(d)} :
        JOBS' = [JOBS EXCEPT ![j] =
                    [_progress_hook(@, data, idx[j], urls[j][idx[j]])
                        EXCEPT !.completed_files = JOBS[j].completed_files]]
    /\ JOBS_LOCK' = j
    /\ pc' = [pc EXCEPT ![j] = "thumbnail"]
    /\ nev' = [nev EXCEPT ![j] = @ + 1]
    /\ resp' = NoResponse
    /\ UNCHANGED <<WHISPER_MODEL, urls, args, idx, failed, completed_files,
                   targets, disk, transcripts, fetched, attempts, inbox, snapshot, loads, _MODEL_LOCK, cli>>

(* web_app._progress_hook lines 872-875: ffmpeg has returned; the entry is *)
(* appended and JOBS_LOCK is released.                                     *)
ThumbnailReturned(j) ==
    /\ pc[j] = "thumbnail"
    /\ JOBS_LOCK = j
    /\ \E data \in {d \in Events : GeneratesThumbnail(d)} :
        JOBS' = [JOBS EXCEPT ![j] = _progress_hook(@, data, idx[j], urls[j][idx[j]])]
    /\ JOBS_LOCK' = None
    /\ pc' = [pc EXCEPT ![j] = "fetch"]
    /\ resp' = NoResponse
    /\ UNCHANGED <<WHISPER_MODEL, urls, args, idx, nev, failed, completed_files,
                   targets, disk, transcripts, fetched, attempts, inbox, snapshot, loads, _MODEL_LOCK, cli>>

(* Mutant: the except branch does not record the url. *)
download_failed_dropped(failed_, url, success) == failed_

(* Mutant: the url is put at the front of the list. *)
download_failed_front(failed_, url, success) ==
    IF success THEN failed_ ELSE <<url>> \o failed_

(* download_urls lines 178-185: the local list failed after one url.       *)
download_failed(failed_, url, success) ==
    IF success THEN failed_ ELSE Append(failed_, url)

(* download_urls lines 178-187: the fetch of url idx concludes. *)
FetchConcluded(j) ==
    /\ pc[j] = "fetch"
    /\ JOBS_LOCK = None
    /\ idx[j] <= Len(urls[j])
    /\ \E success \in BOOLEAN :
        /\ failed' = [failed EXCEPT ![j] = download_failed(@, urls[j][idx[j]], success)]
        /\ fetched' = [fetched EXCEPT ![j] = Append(@, IF success THEN "ok" ELSE "failed")]
    /\ JOBS' = [JOBS EXCEPT ![j] = _item_complete(@)]
    /\ idx' = [idx EXCEPT ![j] = @ + 1]
    /\ resp' = NoResponse
    /\ UNCHANGED <<WHISPER_MODEL, pc, urls, args, nev, completed_files, targets, disk,
                   transcripts, attempts, inbox, JOBS_LOCK, snapshot, loads, _MODEL_LOCK, cli>>

(* web_app lines 1023-1029: an exception escapes download_urls (mkdir of    *)
(* the platform directory, line 176, is outside its try).                  *)
DownloadRaises(j) ==
    /\ pc[j] = "fetch"
    /\ JOBS_LOCK = None
    /\ idx[j] <= Len(urls[j])
    /\ JOBS' = [JOBS EXCEPT ![j].status = "error", ![j].error = "mkdir failed"]
    /\ pc' = [pc EXCEPT ![j] = "done"]
    /\ resp' = NoResponse
    /\ UNCHANGED <<WHISPER_MODEL, urls, args, idx, nev, failed, completed_files,
                   targets, disk, transcripts, fetched, attempts, inbox, JOBS_LOCK, snapshot, loads, _MODEL_LOCK, cli>>

(* Mutant: download_urls returns from inside its loop, after any url. *)
CollectFailed_early(j) ==
    /\ pc[j] = "fetch"
    /\ JOBS_LOCK = None
    /\ JOBS' = [JOBS EXCEPT ![j].failed = failed[j]]
    /\ completed_files' = [completed_files EXCEPT ![j] = JOBS[j].completed_files]
    /\ pc' = [pc EXCEPT ![j] = "select"]
    /\ resp' = NoResponse
    /\ UNCHANGED <<WHISPER_MODEL, urls, args, idx, nev, failed, targets, disk,
                   transcripts, fetched, attempts, inbox, JOBS_LOCK, snapshot, loads, _MODEL_LOCK, cli>>

(* web_app lines 908-913: download_urls returned. *)
CollectFailed(j) ==
    /\ pc[j] = "fetch"
    /\ JOBS_LOCK = None
    /\ idx[j] > Len(urls[j])
    /\ JOBS' = [JOBS EXCEPT ![j].failed = failed[j]]
    /\ completed_files' = [completed_files EXCEPT ![j] = JOBS[j].completed_files]
    /\ pc' = [pc EXCEPT ![j] = "select"]
    /\ resp' = NoResponse
    /\ UNCHANGED <<WHISPER_MODEL, urls, args, idx, nev, failed, targets, disk,
                   transcripts, fetched, attempts, inbox, JOBS_LOCK, snapshot, loads, _MODEL_LOCK, cli>>

RECURSIVE SortedSeq(_)
SortedSeq(S) ==
    IF S = {} THEN <<>>
    ELSE LET m == CHOOSE x \in S : \A y \in S : x <= y
         IN <<m>> \o SortedSeq(S \ {m})

(* Mutant: reencode_total is not set on entry. *)
EnterReencode_no_total(job, n) ==
    [job EXCEPT !.status = "reencoding",
                !.reencode_completed = 0,
                !.reencode_h264 = TRUE]

(* web_app lines 929-935, under JOBS_LOCK: entry into the reencode stage.  *)
EnterReencode(job, n) ==
    [job EXCEPT !.status = "reencoding",
                !.reencode_total = n,
                !.reencode_completed = 0,
                !.reencode_h264 = TRUE]

(* Mutant: only the last attempt is counted. *)
AfterReencode_last(job, i) ==
    [job EXCEPT !.reencode_completed = IF i = job.reencode_total THEN i ELSE @]

(* Mutant: the status is put back to running after each attempt. *)
AfterReencode_running(job, i) ==
    [job EXCEPT !.reencode_completed = i, !.status = "running"]

(* web_app lines 939-942, under JOBS_LOCK: after the attempt number i.     *)
AfterReencode(job, i) ==
    [job EXCEPT !.reencode_completed = i]

(* Mutant: the qualifying files are targets whatever the mode of the job. *)
ReencodeTargets_any_mode(audio_only, qualifying) == SortedSeq(qualifying)

(* web_app lines 915-927: reencode_targets, collected only for a job that *)
(* is not audio-only, in the order of completed_files.                     *)
ReencodeTargets(audio_only, qualifying) ==
    IF audio_only THEN <<>> ELSE SortedSeq(qualifying)

(* web_app lines 915-935: the files that qualify for re-encoding (present  *)
(* on disk, .mp4, under the Instagram directory: facts of the file system) *)
(* and, if there is one, the entry into the reencode stage.                *)
SelectReencodeTargets(j) ==
    /\ pc[j] = "select"
    /\ \E qualifying \in SUBSET {i \in 1..Len(completed_files[j]) :
                                    completed_files[j][i].path # None} :
        LET reencode_targets == ReencodeTargets(args[j].audio_only, qualifying)
        IN
        /\ targets' = [targets EXCEPT ![j] = reencode_targets]
        /\ disk' = [disk EXCEPT ![j] = [k \in 1..Len(reencode_targets) |-> "original"]]
        /\ IF reencode_targets # <<>>
           THEN /\ JOBS_LOCK = None
                /\ JOBS' = [JOBS EXCEPT ![j] = EnterReencode(@, Len(reencode_targets))]
                /\ pc' = [pc EXCEPT ![j] = "reencode"]
           ELSE /\ JOBS' = JOBS
                /\ pc' = [pc EXCEPT ![j] = "pre_transcribe"]
    /\ idx' = [idx EXCEPT ![j] = 1]
    /\ resp' = NoResponse
    /\ UNCHANGED <<WHISPER_MODEL, urls, args, nev, failed, completed_files,
                   transcripts, fetched, attempts, inbox, JOBS_LOCK, snapshot, loads, _MODEL_LOCK, cli>>

(* web_app._reencode_video_to_h264 lines 825-834: ffmpeg has written the   *)
(* temporary file and the function unlinks the original, before it moves   *)
(* the temporary file onto the path.                                       *)
ReencodeUnlinked(j) ==
    /\ pc[j] = "reencode"
    /\ idx[j] <= Len(targets[j])
    /\ disk' = [disk EXCEPT ![j][idx[j]] = "absent"]
    /\ pc' = [pc EXCEPT ![j] = "reencode_unlinked"]
    /\ resp' = NoResponse
    /\ UNCHANGED <<JOBS, WHISPER_MODEL, urls, args, idx, nev, failed, completed_files,
                   targets, transcripts, fetched, attempts, inbox, JOBS_LOCK,
                   snapshot, loads, _MODEL_LOCK, cli>>

(* web_app._reencode_video_to_h264 lines 835-841: temp_path.replace moves   *)
(* the re-encoded file onto the path, or raises; the handler of line 837    *)
(* then unlinks the temporary file.                                        *)
replace(replaced) == IF replaced THEN "h264" ELSE "absent"

(* web_app lines 936-942: the end of one re-encode attempt and the count    *)
(* of it. From "reencode" the attempt ends at one of the returns of lines   *)
(* 791-833 or in the handler of line 837 before the unlink of line 834,     *)
(* and the file is as it was; from "reencode_unlinked" it ends with the     *)
(* replacement of line 835. The loop ignores the result.                   *)
ReencodeOne(j) ==
    /\ pc[j] \in {"reencode", "reencode_unlinked"}
    /\ JOBS_LOCK = None
    /\ idx[j] <= Len(targets[j])
    /\ IF pc[j] = "reencode_unlinked"
       THEN \E replaced \in BOOLEAN :
               disk' = [disk EXCEPT ![j][idx[j]] = replace(replaced)]
       ELSE disk' = disk
    /\ JOBS' = [JOBS EXCEPT ![j] = AfterReencode(@, idx[j])]
    /\ idx' = [idx EXCEPT ![j] = @ + 1]
    /\ pc' = [pc EXCEPT ![j] = IF idx[j] = Len(targets[j]) THEN "pre_transcribe"
                                                          ELSE "reencode"]
    /\ resp' = NoResponse
    /\ UNCHANGED <<WHISPER_MODEL, urls, args, nev, failed, completed_files,
                   targets, transcripts, fetched, attempts, inbox, JOBS_LOCK, snapshot, loads, _MODEL_LOCK, cli>>

(* web_app lines 944-953: entry into the transcribe stage, or past it.      *)
EnterTranscribe(j) ==
    /\ pc[j] = "pre_transcribe"
    /\ IF args[j].audio_only /\ completed_files[j] # <<>>
       THEN /\ JOBS_LOCK = None
            /\ JOBS' = [JOBS EXCEPT ![j].status = "transcribing",
                                    ![j].transcript_total = Len(completed_files[j]),
                                    ![j].transcript_completed = 0,
                                    ![j].transcript_started_at = "time"]
            /\ pc' = [pc EXCEPT ![j] = "transcribe"]
       ELSE /\ JOBS' = JOBS
            /\ pc' = [pc EXCEPT ![j] = "finalize"]
    /\ idx' = [idx EXCEPT ![j] = 1]
    /\ transcripts' = [transcripts EXCEPT ![j] = <<>>]
    /\ resp' = NoResponse
    /\ UNCHANGED <<WHISPER_MODEL, urls, args, nev, failed, completed_files,
                   targets, disk, fetched, attempts, inbox, JOBS_LOCK, snapshot, loads, _MODEL_LOCK, cli>>

(* web_app lines 955-975: where the file of an entry is found on disk.      *)
Resolutions(file_info) ==
    {IF file_info.path # None THEN file_info.path ELSE "direct", None}

(* transcription._load_model and model.transcribe, as transcribe_audio     *)
(* reaches them: what one call of transcribe_audio can do.                 *)
LoadOutcomes == {"import_error", "load_error"}
CallOutcomes == {"transcribe_runtime_error", "transcribe_error", "empty", "ok"}
Raised == {"import_error", "load_error", "transcribe_runtime_error", "transcribe_error"}

(* What _load_model can do: with a model in the cache it returns it. *)
LoadResults(model) ==
    IF model = None THEN LoadOutcomes \cup {"ok"} ELSE {"ok"}

(* What the call of transcribe_audio ends with, from the position of the   *)
(* thread after _load_model: the exception _load_model raised, or one of   *)
(* the outcomes of model.transcribe and the lines after it.                *)
TranscribeOutcomes(at) ==
    IF at \in LoadOutcomes THEN {at} ELSE CallOutcomes

(* The exception class a failed call raises. *)
IsRuntimeError(outcome) ==
    outcome \in {"import_error", "transcribe_runtime_error"}

(* Values of the model_name argument (transcriber.py --model; the web     *)
(* application leaves the default).                                        *)
ModelNames == {"base", "small"}

(* Mutant: the loaded model is returned without being stored in the cache. *)
_load_model_uncached(model, model_name, outcome) == None

(* Mutant: a cached model of another name is replaced by the one asked for. *)
_load_model_by_name(model, model_name, outcome) ==
    IF outcome \in CallOutcomes /\ model # model_name THEN model_name ELSE model

(* transcription._load_model lines 44-54: the cache after the call.        *)
_load_model(model, model_name, outcome) ==
    IF model = None /\ outcome \in CallOutcomes THEN model_name ELSE model

(* transcription._load_model line 53: whisper.load_model is called when    *)
(* the cache is empty and the import succeeded; the results of the calls   *)
(* so far.  The whole of _load_model runs under _MODEL_LOCK.               *)
load_model_calls(model, outcome, loads_) ==
    IF model = None /\ outcome # "import_error"
    THEN Append(loads_, IF outcome = "load_error" THEN "failed" ELSE "loaded")
    ELSE loads_

(* The message of the exception a failed call raises (str(exc)). *)
Message(outcome) ==
    CASE outcome = "import_error" -> "Whisper model is unavailable."
      [] outcome = "load_error" -> "download failed"
      [] outcome = "transcribe_runtime_error" -> "Failed to load audio"
      [] OTHER -> "transcribe failed"

(* Mutant: the fatal branch sets the status and leaves the error field. *)
AfterTranscribe_no_message(job, outcome, target, transcripts_) ==
    IF IsRuntimeError(outcome)
    THEN [job EXCEPT !.status = "error"]
    ELSE IF outcome \in Raised
    THEN [job EXCEPT !.transcript_errors =
                         Append(@, [file |-> target, error |-> Message(outcome)])]
    ELSE [job EXCEPT !.transcript_completed = Len(transcripts_)]

(* web_app lines 984-1011, the blocks under JOBS_LOCK that follow one call *)
(* of transcribe_audio: the record after the call, given the runner's list *)
(* of transcripts after it.  The message prefix of line 989 is Korean in   *)
(* the source ("Whisper model loading failed").                            *)
AfterTranscribe(job, outcome, target, transcripts_) ==
    IF IsRuntimeError(outcome)
    THEN [job EXCEPT !.status = "error",
                     !.error = <<"Whisper model loading failed: ", Message(outcome)>>]
    ELSE IF outcome \in Raised
    THEN [job EXCEPT !.transcript_errors =
                         Append(@, [file |-> target, error |-> Message(outcome)])]
    ELSE [job EXCEPT !.transcript_completed = Len(transcripts_)]

(* Mutant: the return of line 990 is missing. *)
AfterAttempt_no_return(outcome, next) == next

(* web_app lines 984-999: a RuntimeError returns from _run_download_job,   *)
(* any other outcome goes on with the loop.                                *)
AfterAttempt(outcome, next) ==
    IF IsRuntimeError(outcome) THEN "done" ELSE next

(* web_app lines 954-977: the head of one pass of the transcribe loop. The *)
(* file is looked up on disk; an entry whose file is not found is skipped, *)
(* otherwise line 977 stores the path in file_info, the dict the record's  *)
(* completed_files list shares, and JOBS_LOCK is not taken for it.         *)
ResolveTarget(j) ==
    /\ pc[j] = "transcribe"
    /\ idx[j] <= Len(completed_files[j])
    /\ LET i == idx[j]
           file_info == completed_files[j][i]
           next == IF i = Len(completed_files[j]) THEN "finalize" ELSE "transcribe"
       IN
       \E target \in Resolutions(file_info) :
          IF target = None
          THEN /\ pc' = [pc EXCEPT ![j] = next]
               /\ idx' = [idx EXCEPT ![j] = @ + 1]
               /\ UNCHANGED <<JOBS, completed_files>>
          ELSE /\ completed_files' = [completed_files EXCEPT ![j][i].path = target]
               /\ JOBS' = [JOBS EXCEPT ![j].completed_files[i].path = target]
               /\ pc' = [pc EXCEPT ![j] = "transcribe_call"]
               /\ idx' = idx
    /\ resp' = NoResponse
    /\ UNCHANGED <<WHISPER_MODEL, urls, args, nev, failed, targets, disk, transcripts,
                   fetched, attempts, inbox, JOBS_LOCK, snapshot, loads, _MODEL_LOCK, cli>>

(* transcription._load_model line 44, reached from web_app line 979       *)
(* through transcribe_audio line 84: the thread takes _MODEL_LOCK.          *)
LoadModelEntered(j) ==
    /\ pc[j] = "transcribe_call"
    /\ _MODEL_LOCK = None
    /\ _MODEL_LOCK' = j
    /\ pc' = [pc EXCEPT ![j] = "load_model"]
    /\ resp' = NoResponse
    /\ UNCHANGED <<JOBS, WHISPER_MODEL, urls, args, idx, nev, failed, completed_files,
                   targets, disk, transcripts, fetched, attempts, inbox, JOBS_LOCK,
                   snapshot, loads, cli>>

(* Mutant: the lock is taken with acquire() and released only before the   *)
(* return, so that a raise leaves it held.                                 *)
with_MODEL_LOCK_exit_on_return(j, outcome) ==
    IF outcome \in LoadOutcomes THEN j ELSE None

(* transcription._load_model line 44: the with statement releases          *)
(* _MODEL_LOCK when its block is left, by a return or by a raise.          *)
with_MODEL_LOCK_exit(j, outcome) == None

(* transcription._load_model lines 45-54, under _MODEL_LOCK: the cached     *)
(* model is returned, or whisper is imported and the model loaded; the     *)
(* thread leaves the block with the model or with the exception raised.    *)
LoadModelReturned(j) ==
    /\ pc[j] = "load_model"
    /\ _MODEL_LOCK = j
    /\ \E outcome \in LoadResults(WHISPER_MODEL) :
        /\ WHISPER_MODEL' = _load_model(WHISPER_MODEL, "base", outcome)
        /\ loads' = load_model_calls(WHISPER_MODEL, outcome, loads)
        /\ _MODEL_LOCK' = with_MODEL_LOCK_exit(j, outcome)
        /\ pc' = [pc EXCEPT ![j] = IF outcome = "ok" THEN "model_transcribe" ELSE outcome]
    /\ resp' = NoResponse
    /\ UNCHANGED <<JOBS, urls, args, idx, nev, failed, completed_files, targets, disk,
                   transcripts, fetched, attempts, inbox, JOBS_LOCK, snapshot, cli>>

(* web_app lines 979-1011: the rest of transcribe_audio (model.transcribe   *)
(* and the writing of the transcript, transcription.py lines 85-108) and   *)
(* what the loop does with its result or with what it raised.              *)
TranscribeOne(j) ==
    /\ pc[j] \in {"model_transcribe"} \cup LoadOutcomes
    /\ JOBS_LOCK = None
    /\ LET i == idx[j]
           file_info == completed_files[j][i]
           target == file_info.path
           next == IF i = Len(completed_files[j]) THEN "finalize" ELSE "transcribe"
       IN
       \E outcome \in TranscribeOutcomes(pc[j]) :
          LET transcripts_ ==
                  IF outcome = "ok"
                  THEN Append(transcripts[j],
                              [name |-> <<"transcript", file_info.name>>,
                               path |-> <<"transcript", target>>,
                               source |-> file_info.name])
                  ELSE transcripts[j]
          IN
          /\ transcripts' = [transcripts EXCEPT ![j] = transcripts_]
          /\ attempts' = [attempts EXCEPT ![j] =
                             Append(@, [file |-> i, outcome |-> outcome])]
          /\ JOBS' = [JOBS EXCEPT ![j] =
                         AfterTranscribe(@, outcome, <<file_info.name, target>>,
                                         transcripts_)]
          /\ pc' = [pc EXCEPT ![j] = AfterAttempt(outcome, next)]
    /\ idx' = [idx EXCEPT ![j] = @ + 1]
    /\ resp' = NoResponse
    /\ UNCHANGED <<WHISPER_MODEL, urls, args, nev, failed, completed_files, targets,
                   disk, fetched, inbox, JOBS_LOCK, snapshot, loads, _MODEL_LOCK, cli>>

(* web_app lines 1018-1020, under JOBS_LOCK: the two assignments to status  *)
(* in sequence; the second is not in an else branch, so it overwrites the  *)
(* first before the lock is released.                                      *)
FinalStatus(job) ==
    LET after_1019 == IF job.transcript_errors # <<>>
                      THEN "completed_with_warnings" ELSE job.status
        after_1020 == "completed"
    IN after_1020

(* web_app lines 1012-1022, under JOBS_LOCK: the job is finalized.          *)
Finalize(j) ==
    /\ pc[j] = "finalize"
    /\ JOBS_LOCK = None
    /\ JOBS' = [JOBS EXCEPT ![j].transcripts = IF transcripts[j] # <<>>
                                               THEN transcripts[j] ELSE @,
                            ![j].status = FinalStatus(JOBS[j]),
                            ![j].completed = JOBS[j].total,
                            ![j].current_progress = 0]
    /\ pc' = [pc EXCEPT ![j] = "done"]
    /\ resp' = NoResponse
    /\ UNCHANGED <<WHISPER_MODEL, urls, args, idx, nev, failed, completed_files,
                   targets, disk, transcripts, fetched, attempts, inbox, JOBS_LOCK, snapshot, loads, _MODEL_LOCK, cli>>

----------------------------------------------------------------------------
Runner(j) ==
    \/ StartDownload(j)
    \/ ProgressEvent(j)
    \/ ThumbnailStarted(j)
    \/ ThumbnailReturned(j)
    \/ FetchConcluded(j)
    \/ DownloadRaises(j)
    \/ CollectFailed(j)
    \/ SelectReencodeTargets(j)
    \/ ReencodeUnlinked(j)
    \/ ReencodeOne(j)
    \/ EnterTranscribe(j)
    \/ ResolveTarget(j)
    \/ LoadModelEntered(j)
    \/ LoadModelReturned(j)
    \/ TranscribeOne(j)
    \/ Finalize(j)

(* One job from submission to its end: a client posts one request of one   *)
(* to MaxUrls urls, and the thread started for it runs.                    *)
Init == Start({<<p>> : p \in SamplePayloads})

Next ==
    \/ api_download
    \/ \E j \in JobIds : Runner(j)

Spec == Init /\ [][Next]_vars

(* The request handlers: a first request that starts a job, then a request *)
(* with any text of up to MaxBlobLen characters and any options, with      *)
(* progress queries in between; the threads are started and load yt-dlp.   *)
InitApi == Start({<<p, q>> : p \in {SamplePayloads1}, q \in Payloads})

NextApi ==
    \/ api_download
    \/ \E job_id \in JobIds \cup {BogusId} : job_progress(job_id)
    \/ job_progress_response
    \/ \E j \in JobIds : StartDownload(j)

SpecApi == InitApi /\ [][NextApi]_vars

(* Progress queries while the thread of one job of one url runs: a query   *)
(* takes its snapshot in one step and builds its response in a later one.  *)
InitQuery ==
    Start({<<p>> : p \in [ urls : {SampleBlob(1)}, audio_only : BOOLEAN,
                           transcript_format : {None}, transcript_language : {None} ]})

NextQuery ==
    \/ api_download
    \/ \E job_id \in JobIds : job_progress(job_id)
    \/ job_progress_response
    \/ \E j \in JobIds : Runner(j)

SpecQuery == InitQuery /\ [][NextQuery]_vars

(* Two jobs of one url each, submitted one after the other, whose threads  *)
(* run concurrently under every interleaving.                              *)
PairPayloads ==
    [ urls : {SampleBlob(1)}, audio_only : BOOLEAN,
      transcript_format : {None}, transcript_language : {None} ]

InitPair == Start({<<p, q>> : p \in PairPayloads, q \in PairPayloads})

NextPair ==
    \/ api_download
    \/ \E j \in JobIds : Runner(j)

SpecPair == InitPair /\ [][NextPair]_vars

----------------------------------------------------------------------------
(* transcriber.py: the command line tool, a process of its own with its    *)
(* own copy of the model cache of transcription.py.                        *)

(* transcriber.main lines 70-80: the arguments are parsed and the audio    *)
(* files collected (collect_audio_paths leaves with SystemExit when there  *)
(* is none); the files are numbered in the order of audio_files.           *)
main_collect ==
    /\ cli.pc = "idle"
    /\ \E total_files \in 1..MaxFiles, model_name \in ModelNames :
        cli' = [pc |-> "loop", total_files |-> total_files, audio_file |-> 1,
                model_name |-> model_name, model |-> None, attempts |-> <<>>, successes |-> <<>>,
                failures |-> <<>>, processed |-> 0, code |-> None]
    /\ UNCHANGED <<JOBS, WHISPER_MODEL, runnerVars, inbox, JOBS_LOCK, snapshot, loads,
                   _MODEL_LOCK, resp>>

(* transcriber.main lines 81-107: one pass of the loop. transcribe_audio   *)
(* loads the model when the cache of the process is empty.                 *)
main_transcribe ==
    /\ cli.pc = "loop"
    /\ cli.audio_file <= cli.total_files
    /\ \E outcome \in (IF cli.model = None THEN LoadOutcomes ELSE {}) \cup CallOutcomes :
        LET tried == [cli EXCEPT !.attempts = Append(@, outcome),
                                 !.model = _load_model(@, cli.model_name, outcome)]
        IN
        cli' = IF IsRuntimeError(outcome)
               THEN [tried EXCEPT !.pc = "exit", !.code = 1]
               ELSE IF outcome \in Raised
               THEN [tried EXCEPT !.failures = Append(@, <<cli.audio_file, Message(outcome)>>),
                                  !.audio_file = @ + 1]
               ELSE IF outcome = "ok"
               THEN [tried EXCEPT !.successes = Append(@, cli.audio_file),
                                  !.processed = @ + 1,
                                  !.audio_file = @ + 1]
               ELSE [tried EXCEPT !.failures = Append(@, <<cli.audio_file, "Empty transcript">>),
                                  !.processed = @ + 1,
                                  !.audio_file = @ + 1]
    /\ UNCHANGED <<JOBS, WHISPER_MODEL, runnerVars, inbox, JOBS_LOCK, snapshot, loads,
                   _MODEL_LOCK, resp>>

(* transcriber.main lines 109-118: the report and the exit code.           *)
main_report ==
    /\ cli.pc = "loop"
    /\ cli.audio_file > cli.total_files
    /\ cli' = [cli EXCEPT !.pc = "exit",
                          !.code = IF cli.failures # <<>> THEN 2 ELSE 0]
    /\ UNCHANGED <<JOBS, WHISPER_MODEL, runnerVars, inbox, JOBS_LOCK, snapshot, loads,
                   _MODEL_LOCK, resp>>

(* One run of the command line tool on one to MaxFiles audio files; the    *)
(* web application receives no request.                                    *)
InitCli == Start({<<>>})

NextCli == main_collect \/ main_transcribe \/ main_report

SpecCli == InitCli /\ [][NextCli]_vars

----------------------------------------------------------------------------
(* Properties.                                                             *)

Jobs == DOMAIN JOBS

Finished(j) == j \in Jobs /\ pc[j] = "done"

(* The position of a status in the order of the state machine. *)
Rank(status) ==
    CASE status = "pending" -> 0
      [] status = "running" -> 1
      [] status = "reencoding" -> 2
      [] status = "transcribing" -> 3
      [] OTHER -> 4

(* The urls of job j whose fetch failed, in submission order. *)
FailedUrls(j) ==
    LET at == SelectSeq([i \in 1..Len(fetched[j]) |-> i],
                        LAMBDA i : fetched[j][i] = "failed")
    IN [k \in 1..Len(at) |-> urls[j][at[k]]]

(* The entries of completed_files that the url number i contributed. *)
EntriesOf(j, i) ==
    {e \in 1..Len(JOBS[j].completed_files) : JOBS[j].completed_files[e].name = <<"name", i>>}

(* The transcribe attempts of job j whose outcome is in a set. *)
AttemptsWith(j, outcomes) ==
    {k \in 1..Len(attempts[j]) : attempts[j][k].outcome \in outcomes}

PerFileFailures == {"transcribe_runtime_error", "transcribe_error"}

(* C1: a job that ends without a fatal error ends completed_with_warnings  *)
(* if its transcript_errors is non-empty and completed otherwise.          *)
C1_FinalStatusFollowsErrors ==
    \A j \in Jobs :
        (Finished(j) /\ JOBS[j].status # "error") =>
            JOBS[j].status = IF JOBS[j].transcript_errors # <<>>
                             THEN "completed_with_warnings" ELSE "completed"

(* C2: once the status of a job is terminal, no step changes any field of  *)
(* its record.                                                             *)
C2_TerminalAbsorbing ==
    [][\A j \in Jobs : JOBS[j].status \in Terminal => JOBS'[j] = JOBS[j]]_vars

(* A job stopped in error with files left that were never attempted. *)
C2_Witness ==
    \E j \in Jobs :
        /\ Finished(j)
        /\ JOBS[j].status = "error"
        /\ idx[j] <= Len(completed_files[j])

(* C3: the status of a job only moves forward in the order pending,        *)
(* running, reencoding, transcribing, terminal.                            *)
C3_StatusForward ==
    [][\A j \in Jobs : Rank(JOBS'[j].status) >= Rank(JOBS[j].status)]_vars

(* A job that was seen running, went through the reencode stage and ended. *)
C3_Witness ==
    \E j \in Jobs :
        /\ JOBS[j].status = "completed"
        /\ JOBS[j].reencode_h264
        /\ JOBS[j].reencode_completed = 2

(* C4: the three counters stay between 0 and their totals.                 *)
C4_CountersBounded ==
    \A j \in Jobs :
        /\ 0 <= JOBS[j].completed /\ JOBS[j].completed <= JOBS[j].total
        /\ 0 <= JOBS[j].reencode_completed
        /\ JOBS[j].reencode_completed <= JOBS[j].reencode_total
        /\ 0 <= JOBS[j].transcript_completed
        /\ JOBS[j].transcript_completed <= JOBS[j].transcript_total

(* Every counter has reached a total above zero: a job of two urls whose   *)
(* two files were re-encoded.                                              *)
C4_Witness ==
    \E j \in Jobs :
        /\ JOBS[j].completed = 2 /\ JOBS[j].total = 2
        /\ JOBS[j].reencode_completed = 2 /\ JOBS[j].reencode_total = 2

(* C5: a job without transcription ends with total = completed = the       *)
(* number of urls, current_progress 0, status completed and failed equal   *)
(* to the urls whose fetch failed, in order; every url was attempted.      *)
C5_PartialFailureTolerated ==
    \A j \in Jobs :
        (Finished(j) /\ ~JOBS[j].audio_only /\ JOBS[j].status # "error") =>
            /\ Len(fetched[j]) = Len(urls[j])
            /\ JOBS[j].total = Len(urls[j])
            /\ JOBS[j].completed = Len(urls[j])
            /\ JOBS[j].current_progress = 0
            /\ JOBS[j].status = "completed"
            /\ JOBS[j].failed = FailedUrls(j)

(* The scenario of the specification: the first url fetched, the second    *)
(* failed, and the job ended.                                              *)
C5_Witness ==
    \E j \in Jobs :
        /\ Finished(j) /\ ~JOBS[j].audio_only
        /\ fetched[j] = <<"ok", "failed">>
        /\ JOBS[j].failed = <<urls[j][2]>>
        /\ JOBS[j].status = "completed"

(* C6: after the fetch stage completed_files holds one entry for each url  *)
(* whose fetch succeeded and none for a url whose fetch failed.            *)
C6_OneEntryPerFetchedUrl ==
    \A j \in Jobs :
        Len(fetched[j]) = Len(urls[j]) =>
            \A i \in 1..Len(urls[j]) :
                Cardinality(EntriesOf(j, i)) = IF fetched[j][i] = "ok" THEN 1 ELSE 0

(* C7: when the model cannot be loaded for a file, that attempt is the     *)
(* last of the job, which ends in error with a message and no transcripts. *)
C7_UnavailableEngineStopsJob ==
    \A j \in Jobs :
        \A k \in AttemptsWith(j, LoadOutcomes) :
            /\ k = Len(attempts[j])
            /\ Finished(j)
            /\ JOBS[j].status = "error"
            /\ JOBS[j].error # None
            /\ JOBS[j].transcripts = <<>>

(* C8: a failure of the transcribe call for one file is recorded in        *)
(* transcript_errors, does not end the job in error, and the loop goes on  *)
(* to the last file.                                                       *)
C8_PerFileFailureNotFatal ==
    \A j \in Jobs :
        \A k \in AttemptsWith(j, PerFileFailures) :
            /\ Len(JOBS[j].transcript_errors) >= Cardinality(AttemptsWith(j, PerFileFailures))
            /\ ~(k = Len(attempts[j]) /\ JOBS[j].status = "error")
            /\ Finished(j) => idx[j] > Len(completed_files[j])

(* C9: a progress query for an identifier that no submission returned      *)
(* answers 404 and leaves the registry as it was.                          *)
C9_UnknownJobNotFound ==
    [][(resp'.op = "progress" /\ resp'.job_id \notin Jobs) =>
           (resp'.code = 404 /\ JOBS' = JOBS)]_vars

(* Not found is answered while the registry holds a job. *)
C9_Witness ==
    /\ resp.op = "progress"
    /\ resp.code = 404
    /\ Jobs # {}

(* The texts that contain no url: only blanks, commas and newlines. *)
NoUrlIn(text) == \A i \in 1..Len(text) : text[i] \in {" ", ",", "\n"}

(* C10: a submission whose urls text contains no url is answered 400 and   *)
(* creates no record and starts no thread.                                 *)
C10_EmptySubmissionRejected ==
    [][(resp'.op = "download" /\ inbox # <<>> /\ NoUrlIn(Head(inbox).urls)) =>
           /\ resp'.code = 400
           /\ resp'.error = "At least one URL is required."
           /\ JOBS' = JOBS
           /\ pc' = pc]_vars

(* The rejection is answered while the registry holds a job whose thread   *)
(* runs.                                                                   *)
C10_Witness ==
    /\ resp.op = "download"
    /\ resp.code = 400
    /\ resp.error = "At least one URL is required."
    /\ \E j \in Jobs : pc[j] = "fetch"

(* The submissions that carry an unrecognized value of an enumerated       *)
(* option: a transcript format other than txt and srt, or a transcript     *)
(* language other than auto, ko and en, in any letter case.                *)
Unrecognized(payload) ==
    \/ /\ payload.transcript_format # None
       /\ Lower(payload.transcript_format) \notin {"txt", "srt"}
    \/ /\ payload.transcript_language # None
       /\ Lower(payload.transcript_language) \notin {"auto", "ko", "en"}

(* C11 as stated: a submission that carries an unrecognized transcript     *)
(* format or language is answered 400 and creates no record, in audio-only *)
(* mode and in the other mode alike.                                       *)
C11_UnrecognizedOptionRejected ==
    [][(resp'.op = "download" /\ inbox # <<>> /\ Unrecognized(Head(inbox))) =>
           (resp'.code = 400 /\ JOBS' = JOBS /\ pc' = pc)]_vars

(* C11 amended: an audio-only submission that carries an unrecognized      *)
(* transcript format or language is answered 400 and creates no record and *)
(* starts no thread; a submission in the other mode that is accepted gets  *)
(* a record with neither option, whatever values it carried.               *)
C11_AudioOnlyOptionRejected ==
    [][(resp'.op = "download" /\ inbox # <<>>) =>
           /\ (Head(inbox).audio_only /\ Unrecognized(Head(inbox))) =>
                  (resp'.code = 400 /\ JOBS' = JOBS /\ pc' = pc)
           /\ (~Head(inbox).audio_only /\ resp'.code = 200) =>
                  /\ JOBS'[resp'.job_id].transcript_format = None
                  /\ JOBS'[resp'.job_id].transcript_language = None]_vars

(* An option value was rejected while the registry holds a job.            *)
C11_Witness ==
    /\ resp.op = "download"
    /\ resp.code = 400
    /\ resp.error \in {"Unsupported script format.", "Unsupported language option."}
    /\ Jobs # {}

(* The position i of a text starts a url: a character that is no blank and *)
(* no separator, with only blanks between it and the separator before it.  *)
FirstOfUrl(text, i) ==
    /\ text[i] \notin {" ", ",", "\n"}
    /\ \A k \in 1..(i - 1) :
          (\A m \in k..(i - 1) : text[m] \notin {",", "\n"}) => text[k] = " "

(* The number of urls in a submitted text. *)
UrlCount(text) == Cardinality({i \in 1..Len(text) : FirstOfUrl(text, i)})

(* C12: the step that answers a submission with a job identifier has filed *)
(* under that identifier, which was unused, a record with status pending,  *)
(* completed 0 and total the number of submitted urls; the thread of the   *)
(* job is at its start and has taken no step, and the answer carries the   *)
(* same total.                                                             *)
C12_SubmissionFilesPendingRecord ==
    [][(resp'.op = "download" /\ resp'.code = 200) =>
           /\ resp'.job_id \notin DOMAIN JOBS
           /\ resp'.job_id \in DOMAIN JOBS'
           /\ JOBS'[resp'.job_id].status = "pending"
           /\ JOBS'[resp'.job_id].completed = 0
           /\ JOBS'[resp'.job_id].total = UrlCount(Head(inbox).urls)
           /\ resp'.total = UrlCount(Head(inbox).urls)
           /\ Len(urls'[resp'.job_id]) = UrlCount(Head(inbox).urls)
           /\ pc'[resp'.job_id] = "start"
           /\ fetched'[resp'.job_id] = <<>>]_vars

(* A submission of two urls was answered with the identifier of a pending  *)
(* record whose thread has not started.                                    *)
C12_Witness ==
    /\ resp.op = "download"
    /\ resp.code = 200
    /\ resp.total = 2
    /\ JOBS[resp.job_id].status = "pending"
    /\ JOBS[resp.job_id].total = 2
    /\ pc[resp.job_id] = "start"

(* C13: every value of a progress response is the value the record had at  *)
(* the instant the snapshot was taken, whatever the thread of the job did  *)
(* between the snapshot and the response.                                  *)
C13_SnapshotIsDeepCopy ==
    [][(snapshot # <<>> /\ resp'.op = "progress" /\ resp'.code = 200) =>
           /\ resp'.status = snapshot[1].job.status
           /\ resp'.failed = snapshot[1].job.failed
           /\ resp'.completed_files = normalized_completed(snapshot[1].job.completed_files)
           /\ resp'.transcripts = snapshot[1].job.transcripts
           /\ resp'.transcript_errors = snapshot[1].job.transcript_errors]_vars

(* The thread of job j has reached a block under JOBS_LOCK (the one of     *)
(* lines 1012-1022) and cannot enter it: another job's thread holds the    *)
(* lock.                                                                   *)
WaitsForLock(j) ==
    /\ pc[j] = "finalize"
    /\ JOBS_LOCK \notin {None, j}

(* C14: a thread that is about to update the record of its job never has   *)
(* to wait for a thread that is updating the record of another job.        *)
C14_NoCrossJobBlocking ==
    \A a \in Jobs : ~WaitsForLock(a)

(* The thread of job j is inside an external call: yt-dlp fetching a url,  *)
(* ffmpeg extracting a thumbnail or re-encoding, whisper transcribing.     *)
InExternalCall(j) ==
    pc[j] \in {"fetch", "thumbnail", "reencode", "reencode_unlinked", "transcribe",
              "transcribe_call", "load_model", "model_transcribe"}

(* C15: while an external call made for a job is in progress JOBS_LOCK is  *)
(* free, so that a submission or a progress query can take it.             *)
C15_LockFreeDuringExternalCall ==
    \A j \in Jobs : InExternalCall(j) => JOBS_LOCK = None

(* The thread of job j, one of its callbacks or its submission takes this  *)
(* step: every action of a thread moves its position, its index or its     *)
(* count of events.                                                        *)
Stepped(j) == <<pc'[j], idx'[j], nev'[j]>> # <<pc[j], idx[j], nev[j]>>

(* C16: a submission is answered with an identifier that no record is      *)
(* filed under and changes no record; a step that changes the record of a  *)
(* job is a step of that job's thread, and it changes no other record.     *)
C16_JobsIndependent ==
    [][/\ (resp'.op = "download" /\ resp'.code = 200) =>
              /\ resp'.job_id \notin Jobs
              /\ \A j \in Jobs : JOBS'[j] = JOBS[j]
       /\ \A j \in Jobs :
              JOBS'[j] # JOBS[j] =>
                  /\ Stepped(j)
                  /\ \A k \in Jobs \ {j} : ~Stepped(k) /\ JOBS'[k] = JOBS[k]]_vars

(* Two jobs ran side by side: one ended in error, the other completed with *)
(* its file and no failed url.                                             *)
C16_Witness ==
    \E a \in Jobs, b \in Jobs :
        /\ a # b
        /\ Finished(a) /\ JOBS[a].status = "error"
        /\ Finished(b) /\ JOBS[b].status = "completed"
        /\ JOBS[b].failed = <<>>
        /\ Len(JOBS[b].completed_files) = 1
        /\ JOBS[b].error = None

(* The calls of whisper.load_model that returned a model. *)
Loaded == {k \in 1..Len(loads) : loads[k] = "loaded"}

(* C17 as stated: whatever the threads do, whisper.load_model is executed  *)
(* at most one time in the life of the process.                            *)
C17_LoadExecutedAtMostOnce == Len(loads) <= 1

(* C17 amended: whisper.load_model returns a model at most one time, it is *)
(* never executed again after that, and the cache holds a model exactly    *)
(* from then on; only loads that failed can come before.                   *)
C17_LoadedAtMostOnce ==
    /\ Cardinality(Loaded) <= 1
    /\ \A k \in Loaded : k = Len(loads)
    /\ (WHISPER_MODEL # None) <=> (Loaded # {})

(* Both of two concurrent jobs had a file transcribed, with a single load *)
(* of the model.                                                           *)
C17_Witness ==
    /\ \A j \in JobIds : AttemptsWith(j, {"ok"}) # {}
    /\ loads = <<"loaded">>

(* C18: a job is in its reencode stage, or has made a reencode attempt,    *)
(* only after the fetch of every url has concluded; it is in its           *)
(* transcribe stage, or has made a transcribe attempt, only after that and *)
(* after every reencode attempt has concluded.                             *)
C18_StagesInSequence ==
    \A j \in Jobs :
        /\ (pc[j] = "reencode" \/ JOBS[j].status = "reencoding"
                \/ JOBS[j].reencode_completed > 0) =>
               Len(fetched[j]) = Len(urls[j])
        /\ (pc[j] = "transcribe" \/ JOBS[j].status = "transcribing"
                \/ attempts[j] # <<>>) =>
               /\ Len(fetched[j]) = Len(urls[j])
               /\ JOBS[j].reencode_completed = JOBS[j].reencode_total

(* A job of two urls between its first and its second reencode attempt.    *)
C18_Witness ==
    \E j \in Jobs :
        /\ pc[j] = "reencode"
        /\ JOBS[j].reencode_completed = 1
        /\ JOBS[j].reencode_total = 2
        /\ Len(fetched[j]) = 2

(* The thread of job j has ended: it returned from _run_download_job or an *)
(* exception that nothing catches ended it.                                *)
Ended(j) == pc[j] \in {"done", "dead"}

(* C19: every submitted job reaches a terminal status.  Only the thread of *)
(* a job writes its status, so in the form a finite run decides: a thread  *)
(* that has ended has left its job in a terminal status.                   *)
C19_ThreadEndsTerminal ==
    \A j \in Jobs : Ended(j) => JOBS[j].status \in Terminal

(* C20: a job whose thread ended without completing it, whatever failure   *)
(* ended it, has status error and the captured message in error.           *)
C20_FailureEndsInError ==
    \A j \in Jobs :
        (Ended(j) /\ JOBS[j].status \notin {"completed", "completed_with_warnings"}) =>
            /\ JOBS[j].status = "error"
            /\ JOBS[j].error # None

----------------------------------------------------------------------------
(* The progress fraction and the counters behind it.                       *)

(* C21: the progress a query reports is (completed + current_progress) /   *)
(* total of the snapshot it took, cut to the range from 0 to 1 (Unit), and *)
(* 0 when total is not positive: it lies between 0 and 1 whatever value    *)
(* current_progress holds.                                                 *)
C21_ProgressClamped ==
    /\ \A t \in {-1, 0} : \A c \in 0..MaxUrls : \A p \in {0, Unit, 2 * Unit} :
           progress_value([total |-> t, completed |-> c, current_progress |-> p]) = 0
    /\ [][(snapshot # <<>> /\ resp'.op = "progress" /\ resp'.code = 200) =>
             LET job == snapshot[1].job
                 sum == job.completed * Unit + job.current_progress
                 p == resp'.progress
             IN  /\ 0 <= p /\ p <= Unit
                 /\ job.total > 0
                 /\ \/ sum >= Unit * job.total /\ p = Unit
                    \/ p * job.total <= sum /\ sum < (p + 1) * job.total]_vars

(* A query answered 1.0 for a job of one url whose current_progress is     *)
(* above 1.0, none of its urls concluded.                                  *)
C21_Witness ==
    /\ resp.op = "progress" /\ resp.code = 200
    /\ resp.progress = Unit
    /\ JOBS[resp.job_id].total = 1
    /\ JOBS[resp.job_id].completed = 0
    /\ JOBS[resp.job_id].current_progress > Unit

(* C22: every write to the state of a job record, the entries of its       *)
(* completed_files included, is made by a thread that holds JOBS_LOCK: so  *)
(* while one thread holds the lock across a step, no record changes.       *)
C22_WritesUnderLock ==
    [][(JOBS_LOCK # None /\ JOBS_LOCK' = JOBS_LOCK) => JOBS' = JOBS]_vars

(* C23: the first progress event of a job, downloading or finished, takes  *)
(* its status from pending to running: once the hook has processed an      *)
(* event of a job, the status of the job is not pending.                   *)
C23_RunningOnFirstEvent ==
    \A j \in Jobs : (nev[j] > 0 /\ pc[j] # "thumbnail") => JOBS[j].status # "pending"

(* C24: the step in which the fetch of a url concludes, with success or    *)
(* with failure, adds exactly one to completed and leaves current_progress *)
(* 0; after it completed is the number of urls whose fetch has concluded.  *)
C24_ConcludedCounted ==
    [][\A j \in Jobs :
          Len(fetched'[j]) = Len(fetched[j]) + 1 =>
              /\ JOBS'[j].completed = JOBS[j].completed + 1
              /\ JOBS'[j].current_progress = 0
              /\ JOBS'[j].completed = Len(fetched'[j])]_vars

(* Both fetches of a job of two urls have concluded, the first of them     *)
(* with a failure, and the thread is still in download_urls.               *)
C24_Witness ==
    \E j \in Jobs :
        /\ pc[j] = "fetch"
        /\ fetched[j] = <<"failed", "ok">>
        /\ JOBS[j].completed = 2
        /\ JOBS[j].current_progress = 0

(* C25: a url whose fetch fails is appended to the failed sequence of the  *)
(* job record then, before the next fetch begins: during the fetch stage   *)
(* the record lists every url whose fetch has failed so far.               *)
C25_FailedListedDuringFetch ==
    \A j \in Jobs : pc[j] \in {"fetch", "thumbnail"} => JOBS[j].failed = FailedUrls(j)

(* The thread of job j is in its reencode loop. *)
InReencode(j) == pc[j] \in {"reencode", "reencode_unlinked"}

(* C26: the reencode stage is entered exactly when the job is not          *)
(* audio-only and at least one fetched file qualifies; in the stage the    *)
(* status is reencoding, reencode_total is the number of qualifying files  *)
(* and reencode_completed the number of attempts concluded, whatever each  *)
(* did to the file; after the stage reencode_completed = reencode_total,   *)
(* and no attempt, failed or not, puts the job in status error.            *)
C26_ReencodeStageCounted ==
    \A j \in Jobs :
        /\ JOBS[j].reencode_h264 <=> targets[j] # <<>>
        /\ JOBS[j].reencode_h264 =>
              /\ ~args[j].audio_only
              /\ JOBS[j].reencode_total = Len(targets[j])
              /\ JOBS[j].status # "error"
              /\ IF InReencode(j)
                 THEN /\ JOBS[j].status = "reencoding"
                      /\ JOBS[j].reencode_completed = idx[j] - 1
                 ELSE JOBS[j].reencode_completed = JOBS[j].reencode_total
        /\ InReencode(j) => JOBS[j].reencode_h264

(* A job of two qualifying files has ended completed: the first attempt    *)
(* failed and left the file as it was, the second replaced the file, and   *)
(* both were counted.                                                      *)
C26_Witness ==
    \E j \in Jobs :
        /\ Finished(j)
        /\ JOBS[j].status = "completed"
        /\ disk[j] = <<"original", "h264">>
        /\ JOBS[j].reencode_total = 2
        /\ JOBS[j].reencode_completed = 2

(* C27: during and after a re-encode attempt the path of the target holds  *)
(* either the original file or the complete re-encoded file: the file is   *)
(* replaced in one step after a successful encode, and every failure, of   *)
(* the replacement too, leaves the original in place.                      *)
C27_OriginalOrReencoded ==
    \A j \in Jobs : \A k \in 1..Len(disk[j]) : disk[j][k] \in {"original", "h264"}

(* C28: transcript_completed grows by one after each transcription         *)
(* attempt, whether the attempt produced a transcript or failed with a     *)
(* per-file error: in a job that no fatal error stopped it is the number   *)
(* of attempts concluded.                                                  *)
C28_AttemptsCounted ==
    \A j \in Jobs :
        JOBS[j].status # "error" => JOBS[j].transcript_completed = Len(attempts[j])

(* C29: current_progress lies between 0 and 1 (Unit) in every reachable    *)
(* state, whatever byte counts the progress events carry.                  *)
C29_CurrentProgressInRange ==
    \A j \in Jobs : 0 <= JOBS[j].current_progress /\ JOBS[j].current_progress <= Unit

(* C30: the error field of a job record holds a message if and only if the *)
(* status of the job is error.                                             *)
C30_ErrorIffStatusError ==
    \A j \in Jobs : (JOBS[j].error # None) <=> (JOBS[j].status = "error")

(* A job stopped in status error by a transcription attempt, with the      *)
(* message of the failure in its error field.                              *)
C30_Witness ==
    \E j \in Jobs :
        /\ JOBS[j].status = "error"
        /\ JOBS[j].error # None
        /\ AttemptsWith(j, {"import_error"}) # {}

----------------------------------------------------------------------------
(* The sequences of a record, its stages and its progress over time.       *)

IsPrefix(s, t) == Len(s) <= Len(t) /\ SubSeq(t, 1, Len(s)) = s

(* C31: failed, completed_files, transcripts and transcript_errors are     *)
(* append-only: over every step the value each of them had is a prefix of  *)
(* the value it has after the step.                                        *)
C31_SequencesAppendOnly ==
    [][\A j \in Jobs :
          /\ IsPrefix(JOBS[j].failed, JOBS'[j].failed)
          /\ IsPrefix(JOBS[j].completed_files, JOBS'[j].completed_files)
          /\ IsPrefix(JOBS[j].transcripts, JOBS'[j].transcripts)
          /\ IsPrefix(JOBS[j].transcript_errors, JOBS'[j].transcript_errors)]_vars

(* C32: while the status of a job is reencoding or transcribing, its       *)
(* completed equals its total and its current_progress is 0.               *)
C32_FetchCountersFinal ==
    \A j \in Jobs :
        JOBS[j].status \in {"reencoding", "transcribing"} =>
            JOBS[j].completed = JOBS[j].total /\ JOBS[j].current_progress = 0

(* A job of two urls is transcribing after one of its fetches failed and  *)
(* the other reported a finished event.                                    *)
C32_Witness ==
    \E j \in Jobs :
        /\ JOBS[j].status = "transcribing"
        /\ JOBS[j].total = 2
        /\ "failed" \in {fetched[j][k] : k \in 1..Len(fetched[j])}
        /\ nev[j] > 0

(* C33: when a job ends without a fatal error every file counted in        *)
(* transcript_total is accounted for: the number of its transcripts plus   *)
(* the number of its transcript_errors is transcript_total.                *)
C33_EveryFileAccounted ==
    \A j \in Jobs :
        (Finished(j) /\ JOBS[j].status # "error") =>
            Len(JOBS[j].transcripts) + Len(JOBS[j].transcript_errors)
                = JOBS[j].transcript_total

(* C34: no job passes through both the reencoding and the transcribing     *)
(* status: only a job that is not audio-only enters the reencode stage     *)
(* (reencode_h264 is set on entry) and only an audio-only job enters the   *)
(* transcribe stage (transcript_started_at is set on entry).               *)
C34_ReencodeOrTranscribe ==
    \A j \in Jobs :
        /\ (JOBS[j].status = "reencoding" \/ JOBS[j].reencode_h264) => ~args[j].audio_only
        /\ (JOBS[j].status = "transcribing" \/ JOBS[j].transcript_started_at # None) =>
               args[j].audio_only
        /\ JOBS[j].status = "reencoding" => JOBS[j].reencode_h264
        /\ JOBS[j].status = "transcribing" => JOBS[j].transcript_started_at # None

(* An audio-only job went through the transcribe stage with a file on disk *)
(* at a recorded path, and never through the reencode stage.               *)
C34_Witness ==
    \E j \in Jobs :
        /\ Finished(j)
        /\ args[j].audio_only
        /\ JOBS[j].transcript_started_at # None
        /\ ~JOBS[j].reencode_h264
        /\ \E k \in 1..Len(completed_files[j]) : completed_files[j][k].path = "orig"

(* C35: the overall progress of a job that has not reached a terminal      *)
(* status never decreases from one snapshot to the next, whatever events   *)
(* yt-dlp emits.                                                           *)
C35_ProgressMonotone ==
    [][\A j \in Jobs :
          JOBS[j].status \notin Terminal =>
              progress_value(JOBS'[j]) >= progress_value(JOBS[j])]_vars

(* C35, amended: the overall progress of a job that has not reached a      *)
(* terminal status never falls below completed / total of an earlier       *)
(* snapshot, and it decreases only in a step that processes a progress     *)
(* event, or in the step that concludes an item whose current_progress     *)
(* was above 1.                                                            *)
C35_ProgressFallsOnlyWithinItem ==
    [][\A j \in Jobs :
          JOBS[j].status \notin Terminal =>
              LET before == progress_value(JOBS[j])
                  after == progress_value(JOBS'[j])
                  concluded == progress_value([JOBS[j] EXCEPT !.current_progress = 0])
              IN  /\ after >= concluded
                  /\ after < before =>
                        \/ nev'[j] = nev[j] + 1
                        \/ /\ Len(fetched'[j]) = Len(fetched[j]) + 1
                           /\ JOBS[j].current_progress > Unit]_vars

(* The progress of a job of one url has fallen from 1.0 to 0: a finished   *)
(* event left an entry and current_progress 1.0, and the downloading event *)
(* after it carried no total.                                              *)
C35_Witness ==
    \E j \in Jobs :
        /\ JOBS[j].total = 1
        /\ nev[j] = 2
        /\ JOBS[j].completed_files # <<>>
        /\ JOBS[j].status = "running"
        /\ JOBS[j].completed = 0
        /\ JOBS[j].current_progress = 0

----------------------------------------------------------------------------
(* The two locks.                                                          *)

(* C36: no thread tries to take JOBS_LOCK or _MODEL_LOCK while it holds    *)
(* either of them, and every lock taken is released on every path: a       *)
(* thread holds JOBS_LOCK across steps only inside the progress hook and   *)
(* _MODEL_LOCK only inside _load_model, there it holds no other lock, and  *)
(* its next step, which waits for no lock, is enabled.                     *)
C36_NoLockHeldWhileAcquiring ==
    \A j \in JobIds :
        /\ JOBS_LOCK = j =>
              /\ pc[j] = "thumbnail"
              /\ _MODEL_LOCK # j
              /\ ENABLED ThumbnailReturned(j)
        /\ _MODEL_LOCK = j =>
              /\ pc[j] = "load_model"
              /\ JOBS_LOCK # j
              /\ ENABLED LoadModelReturned(j)
        /\ Ended(j) => JOBS_LOCK # j /\ _MODEL_LOCK # j

(* The thread of one job has ended in status error after _load_model       *)
(* raised, the thread of the other job holds JOBS_LOCK inside the hook,    *)
(* and _MODEL_LOCK is free.                                                *)
C36_Witness ==
    \E a, b \in Jobs :
        /\ Ended(a)
        /\ AttemptsWith(a, {"import_error"}) # {}
        /\ JOBS_LOCK = b
        /\ _MODEL_LOCK = None

----------------------------------------------------------------------------
(* download_urls and its hooks.                                            *)

(* C37: download_urls calls the item-complete hook once for each url, in   *)
(* the order of its input and after every progress event of that url,      *)
(* with success false exactly for the urls it returns: its list failed is  *)
(* always the urls whose fetch raised, in input order; a progress event    *)
(* belongs to the url in flight, whose hook has not been called; each call *)
(* of the hook is for the url after the last one concluded; and when       *)
(* download_urls returns the hook has been called for every url.           *)
C37_ItemCompleteOncePerUrl ==
    /\ [](\A j \in Jobs :
            /\ failed[j] = FailedUrls(j)
            /\ pc[j] \in {"fetch", "thumbnail"} => idx[j] = Len(fetched[j]) + 1)
    /\ [][\A j \in Jobs :
            /\ nev'[j] > nev[j] =>
                  /\ idx[j] = Len(fetched[j]) + 1 /\ idx[j] <= Len(urls[j])
                  /\ fetched'[j] = fetched[j]
            /\ fetched'[j] # fetched[j] =>
                  /\ Len(fetched'[j]) = idx[j] /\ idx'[j] = idx[j] + 1
                  /\ SubSeq(fetched'[j], 1, Len(fetched[j])) = fetched[j]
                  /\ JOBS'[j].completed = JOBS[j].completed + 1
            /\ (pc[j] = "fetch" /\ pc'[j] = "select") =>
                  /\ Len(fetched[j]) = Len(urls[j])
                  /\ JOBS'[j].failed = FailedUrls(j)]_vars

(* download_urls has returned for a job of two urls: the first fetch       *)
(* raised after a progress event, the second succeeded after another, and  *)
(* the list returned holds the first url.                                  *)
C37_Witness ==
    \E j \in Jobs :
        /\ pc[j] = "select"
        /\ fetched[j] = <<"failed", "ok">>
        /\ nev[j] = 2
        /\ JOBS[j].failed = <<urls[j][1]>>
        /\ urls[j][1] # urls[j][2]

----------------------------------------------------------------------------
(* The command line tool.                                                  *)

(* The attempts of the command line tool at which the model could not be   *)
(* loaded.                                                                 *)
Unloadable == {k \in 1..Len(cli.attempts) : cli.attempts[k] \in LoadOutcomes}

(* C38: the command line tool stops at the first file for which the model  *)
(* cannot be loaded and exits with code 1; otherwise it attempts every     *)
(* file and exits with code 2 if a file failed or gave an empty            *)
(* transcript, and with code 0 if every file produced a transcript.        *)
C38_CliExitCodes ==
    cli.pc = "exit" =>
        IF Unloadable # {}
        THEN /\ cli.code = 1
             /\ \A k \in Unloadable : k = Len(cli.attempts)
        ELSE /\ Len(cli.attempts) = cli.total_files
             /\ cli.code = IF \E k \in 1..Len(cli.attempts) : cli.attempts[k] # "ok"
                           THEN 2 ELSE 0

----------------------------------------------------------------------------
(* The model cache.                                                        *)

(* C39: the model cache changes only from empty to loaded. A call of       *)
(* _load_model with a model in the cache leaves the cache as it is and     *)
(* loads nothing, whatever model name it asks for; a load that fails       *)
(* leaves the cache empty, and a call that finds it empty loads again      *)
(* (unless whisper cannot be imported); a load that succeeds fills it.     *)
C39_CacheOnlyFilled ==
    /\ \A cached \in ModelNames : \A model_name \in ModelNames :
           \A outcome \in LoadOutcomes \cup CallOutcomes :
               /\ _load_model(cached, model_name, outcome) = cached
               /\ load_model_calls(cached, outcome, <<>>) = <<>>
    /\ [][/\ WHISPER_MODEL # None => WHISPER_MODEL' = WHISPER_MODEL /\ loads' = loads
          /\ WHISPER_MODEL' # WHISPER_MODEL =>
                WHISPER_MODEL = None /\ loads' = Append(loads, "loaded")
          /\ loads' = Append(loads, "failed") => WHISPER_MODEL' = None
          /\ loads' = Append(loads, "loaded") => WHISPER_MODEL' # None
          /\ \A j \in Jobs :
                (pc[j] = "load_model" /\ pc'[j] # "load_model" /\ WHISPER_MODEL = None) =>
                    Len(loads') = Len(loads) + 1 \/ pc'[j] = "import_error"]_vars

(* The load made for one job failed and left the cache empty; the call     *)
(* made for the other job loaded again and filled it.                      *)
C39_Witness ==
    /\ loads = <<"failed", "loaded">>
    /\ WHISPER_MODEL # None
    /\ \E a, b \in Jobs :
          /\ AttemptsWith(a, {"load_error"}) # {}
          /\ AttemptsWith(b, {"ok"}) # {}

====
